---- MODULE Spec2Model ----
(***************************************************************************)
(* kmime: clone a pod, wait for it, attach a terminal to it, delete it.    *)
(*                                                                         *)
(* The model follows one session from "connect" to process exit, for both  *)
(* entry points: the CLI Run function (main.go) and the bubbletea model    *)
(* (parsing.go).  The cluster is a set of pod names; every call to the     *)
(* cluster API either answers or fails with a transport error.             *)
(***************************************************************************)
EXTENDS Integers, FiniteSets, Sequences, TLC

\* ---- bounds ----
NumPods == 2        \* pod names 1..NumPods; 1 is the source pod
MaxElapsed == 5     \* the clock of a readiness wait stops here
MaxCalls == 3       \* deletePod calls of the cluster harness
NumSizes == 2       \* terminal sizes 1..NumSizes
MaxResize == 2      \* the terminal is resized until the remote side has this many sizes
MaxSrcLen == 64     \* longest source pod name given to generateNewPodName
MaxEnvLen == 2      \* longest environment list given to clonePod
MaxContainers == 2  \* most containers of a source pod given to clonePod
NumSessions == 3    \* sessions that call appendLog on one log file
MaxFileLen == 6     \* longest env file text given to parseEnvFile, in characters
MaxSamples == 4     \* term.GetSize calls of the resize goroutine

\* ---- program constants ----
Timeout == 2        \* time.Minute*2, in minutes (main.go:115, parsing.go:325)
NameLimit == 63     \* if len(fullName) > 63 (part_001:69)
TokenMod == 10000   \* time.Now().UnixNano()%10000 (part_001:66)

PodNames == 1..NumPods
SourcePod == 1
NoPod == 0
TermModes == {"cooked", "cbreak", "raw"}
Phases == {"Pending", "Running", "Succeeded", "Failed", "Unknown", ""}

VARIABLES
  ui,          \* "cli": rootCmd.Run, "tui": the bubbletea model
  pc,          \* the stage that is executing ("idle": the TUI has no command running)
  outcome,     \* "none" while the process lives; "done", "failed", "interrupted"
  cluster,     \* names of the pods that exist in the namespace
  newName,     \* the name generateNewPodName gives the clone
  created,     \* name of the pod createPod returned, NoPod before
  createErr,   \* the error createPod returned, "none" before the call and on success
  deferred,    \* CLI: the deferred cleanup of main.go:105 is registered
  deleteCalls, \* number of deletePod calls the session has made
  lastDel,     \* the last deletePod call: name, API answer, result, cluster before/after
  waitSt,      \* waitForPodRunning: "idle", "watching", "returned"
  waitErr,     \* what waitForPodRunning returned: [kind, phase], kind "none" for nil
  waitRes,     \* number of times the current watch has resolved
  lastEvent,   \* the last event the watch loop took from ResultChan
  timer,       \* minutes since the pending time.After(timeout) was created
  elapsed,     \* minutes since waitForPodRunning was called
  attSt,       \* attachToPod: "idle", "exec", "makeraw", "stream", "returned"
  attErr,      \* what attachToPod returned
  term,        \* mode of the local terminal
  termAtCall,  \* mode of the local terminal when attachToPod was called
  oldState,    \* attachToPod's oldState (term.MakeRaw's result)
  m,           \* TUI: the model value (statusText, done, err, newPodName, clientset)
  msgs,        \* TUI: messages sent to the program and not yet handled
  intrAt,      \* stage at which the user's interrupt arrived, "none" before
  sampler,     \* attachToPod's resize goroutine: "none", "start", "send", "wait", "closed"
  termSize,    \* size of the local terminal (width and height, as one value)
  pushed,      \* the goroutine's width, height: the size it pushed last
  received,    \* the sizes terminalSizeQueue.Next has handed to the remote side
  sampled,     \* the sizes term.GetSize has returned to the goroutine, in order
  fin,         \* function harnesses: the arguments of the function under check
  fout,        \* function harnesses: its result; done is FALSE before the call
  logFile,     \* kmime_log.json
  appl         \* appendLog calls in progress: per session, its position and entries

svars == <<ui, pc, outcome, cluster, newName, created, createErr, deferred, deleteCalls, lastDel>>
wvars == <<waitSt, waitErr, waitRes, lastEvent, timer, elapsed>>
avars == <<attSt, attErr, term, termAtCall, oldState>>
tvars == <<m, msgs, intrAt>>
rvars == <<sampler, termSize, pushed, received, sampled>>
hvars == <<fin, fout>>
lvars == <<logFile, appl>>
vars == <<svars, wvars, avars, tvars, rvars, hvars, lvars>>

\* ---- the cluster API, as the functions of the repository use it ----

\* Pods(ns).Get: a transport fault, not-found, or the pod.
getPod(c, name, fault) ==
  IF fault \/ name \notin c THEN "fetch" ELSE "none"

\* Pods(ns).Create + createPod's wrapping: a fault or an existing name fails.
createPod(c, name, fault) ==
  IF fault \/ name \in c
    THEN [err |-> "create", pod |-> NoPod, cluster |-> c]
    ELSE [err |-> "none", pod |-> name, cluster |-> c \cup {name}]

\* Pods(ns).Delete: the API's own answer.
ApiDelete(c, name, fault) ==
  IF fault THEN [err |-> "other", cluster |-> c]
  ELSE IF name \notin c THEN [err |-> "notfound", cluster |-> c]
  ELSE [err |-> "nil", cluster |-> c \ {name}]

deletePodBreaksOnNotFound(c, name, fault) ==
  LET r == ApiDelete(c, name, fault)
  IN [err |-> IF r.err # "nil" THEN "delete" ELSE "none",
      api |-> r.err, cluster |-> r.cluster]

\* deletePod: err != nil && !IsNotFound(err) is the only error.
deletePod(c, name, fault) ==
  LET r == ApiDelete(c, name, fault)
  IN [err |-> IF r.err # "nil" /\ r.err # "notfound" THEN "delete" ELSE "none",
      api |-> r.err, cluster |-> r.cluster]

NoDel == [name |-> NoPod, api |-> "nil", err |-> "none", before |-> {}, after |-> {}]

DelRecord(c, name, fault) ==
  LET r == deletePod(c, name, fault)
  IN [name |-> name, api |-> r.api, err |-> r.err, before |-> c, after |-> r.cluster]

\* ---- the TUI model value and its messages ----
NewModel == [statusText |-> "connecting", done |-> FALSE, err |-> "none",
             newPodName |-> NoPod, clientset |-> FALSE]

Msg(t, e, p) == [type |-> t, err |-> e, podName |-> p]

\* ---- waitForPodRunning ----
NoEvent == [kind |-> "none", phase |-> ""]
NoErr == [kind |-> "none", phase |-> ""]

\* What ResultChan can deliver: a pod with a phase, a watch.Error event, an
\* object that is not a pod, or the zero Event of a closed channel.
Events ==
  {[kind |-> "pod", phase |-> p] : p \in Phases}
    \cup {[kind |-> k, phase |-> ""] : k \in {"error", "nonpod", "closed"}}

OnEventSkipsNonPod(e) ==
  IF e.kind = "error" THEN [st |-> "returned", err |-> [kind |-> "event", phase |-> ""]]
  ELSE IF e.kind # "pod" THEN [st |-> "watching", err |-> NoErr]
  ELSE IF e.phase \in {"Running", "Succeeded"} THEN [st |-> "returned", err |-> NoErr]
  ELSE IF e.phase = "Failed" THEN [st |-> "returned", err |-> [kind |-> "phase", phase |-> e.phase]]
  ELSE [st |-> "watching", err |-> NoErr]

OnEventIgnoresFailed(e) ==
  IF e.kind = "error" THEN [st |-> "returned", err |-> [kind |-> "event", phase |-> ""]]
  ELSE IF e.kind # "pod" THEN [st |-> "returned", err |-> [kind |-> "object", phase |-> ""]]
  ELSE IF e.phase \in {"Running", "Succeeded"} THEN [st |-> "returned", err |-> NoErr]
  ELSE [st |-> "watching", err |-> NoErr]

\* One pass of the select's event case: the loop's next state and the error
\* returned, if it returns.
OnEvent(e) ==
  IF e.kind = "error" THEN [st |-> "returned", err |-> [kind |-> "event", phase |-> ""]]
  ELSE IF e.kind # "pod" THEN [st |-> "returned", err |-> [kind |-> "object", phase |-> ""]]
  ELSE IF e.phase \in {"Running", "Succeeded"} THEN [st |-> "returned", err |-> NoErr]
  ELSE IF e.phase = "Failed" THEN [st |-> "returned", err |-> [kind |-> "phase", phase |-> e.phase]]
  ELSE [st |-> "watching", err |-> NoErr]

\* ---- attachToPod's terminal handling ----
MakeRaw(t) == [term |-> "raw", old |-> t]

RestoreToCooked(old) == "cooked"

Restore(old) == old

Alive == outcome = "none"

\* No function call has been made.
NoCall == [done |-> FALSE]

\* kmime_log.json does not exist.
NoFile == [exists |-> FALSE, readable |-> TRUE, kind |-> "none", entries |-> <<>>]

Init ==
  /\ ui \in {"cli", "tui"}
  /\ pc = "connect"
  /\ outcome = "none"
  /\ cluster \in SUBSET PodNames
  /\ newName \in PodNames \ {SourcePod}
  /\ created = NoPod
  /\ createErr = "none"
  /\ deferred = FALSE
  /\ deleteCalls = 0
  /\ lastDel = NoDel
  /\ waitSt = "idle" /\ waitErr = NoErr /\ waitRes = 0 /\ lastEvent = NoEvent
  /\ timer = 0 /\ elapsed = 0
  /\ attSt = "idle" /\ attErr = "none"
  /\ term \in TermModes
  /\ termAtCall = term
  /\ oldState = term
  /\ m = NewModel
  /\ msgs = {}
  /\ intrAt = "none"
  /\ sampler = "none" /\ termSize = 1 /\ pushed = 0 /\ received = <<>>
  /\ sampled = <<>>
  /\ fin = NoCall /\ fout = NoCall
  /\ logFile = NoFile /\ appl = <<>>

\* ---- helpers of the two entry points ----

\* log.Fatalf: the message, then os.Exit(1); deferred functions do not run.
Fatalf ==
  /\ outcome' = "failed"
  /\ pc' = "exited"

\* p.Send of a command's message.
Send(msg) == msgs' = msgs \cup {msg}

\* The event loop took msg from the channel and Update answered with a
\* command that sends reply at once (tea.Quit sends QuitMsg).
Reply(msg, reply) == msgs' = (msgs \ {msg}) \cup {reply}

QuitMsg == Msg("QuitMsg", "none", NoPod)

\* ---- rootCmd.Run (main.go) ----

\* getKubeConfig: the kubeconfig loads or it does not.
CliConnect ==
  /\ ui = "cli" /\ Alive /\ pc = "connect"
  /\ \E ok \in BOOLEAN :
       IF ok THEN pc' = "fetch" /\ outcome' = outcome ELSE Fatalf
  /\ UNCHANGED <<ui, cluster, newName, created, createErr, deferred, deleteCalls, lastDel>>
  /\ UNCHANGED <<wvars, avars, tvars>>
  /\ UNCHANGED <<rvars, hvars, lvars>>

CliFetch ==
  /\ ui = "cli" /\ Alive /\ pc = "fetch"
  /\ \E fault \in BOOLEAN :
       IF getPod(cluster, SourcePod, fault) = "none"
         THEN pc' = "create" /\ outcome' = outcome
         ELSE Fatalf
  /\ UNCHANGED <<ui, cluster, newName, created, createErr, deferred, deleteCalls, lastDel>>
  /\ UNCHANGED <<wvars, avars, tvars>>
  /\ UNCHANGED <<rvars, hvars, lvars>>

\* clonePod, createPod, appendLog (a failure is a warning), and the defer.
CliCreate ==
  /\ ui = "cli" /\ Alive /\ pc = "create"
  /\ \E fault \in BOOLEAN :
       LET r == createPod(cluster, newName, fault)
       IN IF r.err # "none"
            THEN Fatalf /\ createErr' = r.err /\ UNCHANGED <<cluster, created, deferred>>
            ELSE /\ cluster' = r.cluster
                 /\ createErr' = r.err
                 /\ created' = r.pod
                 /\ deferred' = TRUE
                 /\ pc' = "wait"
                 /\ outcome' = outcome
  /\ UNCHANGED <<ui, newName, deleteCalls, lastDel>>
  /\ UNCHANGED <<wvars, avars, tvars>>
  /\ UNCHANGED <<rvars, hvars, lvars>>

\* ---- waitForPodRunning (called by Run and by waitForPodCmd) ----

\* Pods(ns).Watch: on an error the function returns before the loop.
WaitStart ==
  /\ Alive /\ pc = "wait" /\ waitSt = "idle"
  /\ \E fault \in BOOLEAN :
       IF fault
         THEN /\ waitSt' = "returned"
              /\ waitErr' = [kind |-> "watch", phase |-> ""]
              /\ waitRes' = waitRes + 1
         ELSE /\ waitSt' = "watching"
              /\ UNCHANGED <<waitErr, waitRes>>
  /\ timer' = 0 /\ elapsed' = 0
  /\ UNCHANGED <<lastEvent, svars, avars, tvars>>
  /\ UNCHANGED <<rvars, hvars, lvars>>

\* case event := <-watcher.ResultChan(): a pass that does not return goes
\* round the loop and evaluates time.After(timeout) again.
WatchEvent ==
  /\ Alive /\ pc = "wait" /\ waitSt = "watching"
  /\ \E e \in Events :
       LET r == OnEvent(e)
       IN /\ lastEvent' = e
          /\ waitSt' = r.st
          /\ waitErr' = r.err
          /\ waitRes' = IF r.st = "returned" THEN waitRes + 1 ELSE waitRes
          /\ timer' = IF r.st = "watching" THEN 0 ELSE timer
  /\ UNCHANGED <<elapsed, svars, avars, tvars>>
  /\ UNCHANGED <<rvars, hvars, lvars>>

\* case <-time.After(timeout)
WaitTimeout ==
  /\ Alive /\ pc = "wait" /\ waitSt = "watching"
  /\ timer >= Timeout
  /\ waitSt' = "returned"
  /\ waitErr' = [kind |-> "timeout", phase |-> ""]
  /\ waitRes' = waitRes + 1
  /\ UNCHANGED <<lastEvent, timer, elapsed, svars, avars, tvars>>
  /\ UNCHANGED <<rvars, hvars, lvars>>

\* A minute passes while the select blocks; a timer that is due fires (or an
\* event is taken) before more time passes.
Tick ==
  /\ Alive /\ pc = "wait" /\ waitSt = "watching"
  /\ timer < Timeout /\ elapsed < MaxElapsed
  /\ timer' = timer + 1
  /\ elapsed' = elapsed + 1
  /\ UNCHANGED <<waitSt, waitErr, waitRes, lastEvent, svars, avars, tvars>>
  /\ UNCHANGED <<rvars, hvars, lvars>>

\* main.go:115-120
CliAfterWait ==
  /\ ui = "cli" /\ Alive /\ pc = "wait" /\ waitSt = "returned"
  /\ IF waitErr.kind # "none"
       THEN Fatalf /\ UNCHANGED <<attSt, termAtCall>>
       ELSE /\ pc' = "attach" /\ outcome' = outcome
            /\ attSt' = "exec"
            /\ termAtCall' = term
  /\ UNCHANGED <<ui, cluster, newName, created, createErr, deferred, deleteCalls, lastDel>>
  /\ UNCHANGED <<attErr, term, oldState, wvars, tvars>>
  /\ UNCHANGED <<rvars, hvars, lvars>>

\* ---- attachToPod (called by Run and by Update's attachMsg case) ----

\* remotecommand.NewSPDYExecutor
AttachExecutor ==
  /\ Alive /\ pc = "attach" /\ attSt = "exec"
  /\ \E ok \in BOOLEAN :
       IF ok THEN attSt' = "makeraw" /\ attErr' = attErr
             ELSE attSt' = "returned" /\ attErr' = "executor"
  /\ UNCHANGED <<term, termAtCall, oldState, svars, wvars, tvars>>
  /\ UNCHANGED <<rvars, hvars, lvars>>

\* term.MakeRaw; on success the restore is deferred, the resize goroutine
\* is started and the stream starts.
AttachMakeRaw ==
  /\ Alive /\ pc = "attach" /\ attSt = "makeraw"
  /\ \E ok \in BOOLEAN :
       IF ok
         THEN /\ term' = MakeRaw(term).term
              /\ oldState' = MakeRaw(term).old
              /\ attSt' = "stream" /\ attErr' = attErr
              /\ sampler' = "start"
         ELSE /\ attSt' = "returned" /\ attErr' = "makeraw"
              /\ UNCHANGED <<term, oldState, sampler>>
  /\ UNCHANGED <<termAtCall, svars, wvars, tvars>>
  /\ UNCHANGED <<termSize, pushed, received, sampled>>
  /\ UNCHANGED <<hvars, lvars>>

\* exec.Stream returns: nil, the remote command's exit status as an error,
\* or a transport error; then the deferred term.Restore runs.
AttachStreamEnd ==
  /\ Alive /\ pc = "attach" /\ attSt = "stream"
  /\ \E r \in {"none", "exit_status", "transport"} : attErr' = r
  /\ term' = Restore(oldState)
  /\ attSt' = "returned"
  /\ UNCHANGED <<termAtCall, oldState, svars, wvars, tvars>>
  /\ UNCHANGED <<rvars, hvars, lvars>>

\* main.go:121-126: Run returns after "Session ended".
CliAfterAttach ==
  /\ ui = "cli" /\ Alive /\ pc = "attach" /\ attSt = "returned"
  /\ IF attErr # "none"
       THEN Fatalf
       ELSE pc' = "cleanup" /\ outcome' = outcome
  /\ UNCHANGED <<ui, cluster, newName, created, createErr, deferred, deleteCalls, lastDel>>
  /\ UNCHANGED <<wvars, avars, tvars>>
  /\ UNCHANGED <<rvars, hvars, lvars>>

\* main.go:105-112, run when Run returns: a failure is logged as a warning.
CliDeferredCleanup ==
  /\ ui = "cli" /\ Alive /\ pc = "cleanup" /\ deferred
  /\ \E fault \in BOOLEAN :
       /\ lastDel' = DelRecord(cluster, created, fault)
       /\ cluster' = lastDel'.after
  /\ deleteCalls' = deleteCalls + 1
  /\ outcome' = "done"
  /\ pc' = "exited"
  /\ UNCHANGED <<ui, newName, created, createErr, deferred>>
  /\ UNCHANGED <<wvars, avars, tvars>>
  /\ UNCHANGED <<rvars, hvars, lvars>>

\* SIGINT (Ctrl-C on a terminal that still turns it into a signal): Run
\* installs no handler, the Go runtime ends the process at once.
CliInterrupt ==
  /\ ui = "cli" /\ Alive
  /\ term # "raw"
  /\ intrAt' = pc
  /\ outcome' = "interrupted"
  /\ pc' = "exited"
  /\ UNCHANGED <<ui, cluster, newName, created, createErr, deferred, deleteCalls, lastDel>>
  /\ UNCHANGED <<m, msgs, wvars, avars>>
  /\ UNCHANGED <<rvars, hvars, lvars>>

\* Somebody else deletes a pod of the namespace.
ExternalDelete ==
  /\ Alive
  /\ \E n \in cluster : cluster' = cluster \ {n}
  /\ UNCHANGED <<ui, pc, outcome, newName, created, createErr, deferred, deleteCalls, lastDel>>
  /\ UNCHANGED <<wvars, avars, tvars>>
  /\ UNCHANGED <<rvars, hvars, lvars>>

\* ---- the bubbletea model (parsing.go) ----
\* Commands run in their own goroutines and send their message to the
\* program; the event loop hands one message at a time to Update.  The
\* spinner's ticks and the alternate screen change none of the state below.

\* connectToKubeCmd
TuiConnectCmd ==
  /\ ui = "tui" /\ Alive /\ pc = "connect"
  /\ \E ok \in BOOLEAN :
       Send(IF ok THEN Msg("kubeConnectedMsg", "none", NoPod)
                  ELSE Msg("errorMsg", "connect", NoPod))
  /\ pc' = "idle"
  /\ UNCHANGED <<ui, outcome, cluster, newName, created, createErr, deferred, deleteCalls, lastDel>>
  /\ UNCHANGED <<m, intrAt, wvars, avars>>
  /\ UNCHANGED <<rvars, hvars, lvars>>

\* fetchPodCmd
TuiFetchCmd ==
  /\ ui = "tui" /\ Alive /\ pc = "fetch"
  /\ \E fault \in BOOLEAN :
       Send(IF getPod(cluster, SourcePod, fault) = "none"
              THEN Msg("podFetchedMsg", "none", NoPod)
              ELSE Msg("errorMsg", "fetch", NoPod))
  /\ pc' = "idle"
  /\ UNCHANGED <<ui, outcome, cluster, newName, created, createErr, deferred, deleteCalls, lastDel>>
  /\ UNCHANGED <<m, intrAt, wvars, avars>>
  /\ UNCHANGED <<rvars, hvars, lvars>>

\* createPodCmd: getPod's error is dropped, so a source pod that is gone
\* makes clonePod dereference nil and the process dies in the command.
TuiCreateCmd ==
  /\ ui = "tui" /\ Alive /\ pc = "create"
  /\ \E getFault, fault \in BOOLEAN :
       IF getPod(cluster, SourcePod, getFault) # "none"
         THEN /\ outcome' = "crashed"
              /\ pc' = "exited"
              /\ UNCHANGED <<cluster, created, createErr, msgs>>
         ELSE LET r == createPod(cluster, newName, fault)
              IN /\ cluster' = r.cluster
                 /\ created' = r.pod
                 /\ createErr' = r.err
                 /\ Send(IF r.err # "none"
                           THEN Msg("errorMsg", r.err, NoPod)
                           ELSE Msg("podCreatedMsg", "none", r.pod))
                 /\ pc' = "idle"
                 /\ outcome' = outcome
  /\ UNCHANGED <<ui, newName, deferred, deleteCalls, lastDel>>
  /\ UNCHANGED <<m, intrAt, wvars, avars>>
  /\ UNCHANGED <<rvars, hvars, lvars>>

\* waitForPodCmd, after waitForPodRunning has returned
TuiWaitCmd ==
  /\ ui = "tui" /\ Alive /\ pc = "wait" /\ waitSt = "returned"
  /\ Send(IF waitErr.kind # "none"
            THEN Msg("errorMsg", waitErr.kind, NoPod)
            ELSE Msg("podRunningMsg", "none", m.newPodName))
  /\ pc' = "idle"
  /\ UNCHANGED <<ui, outcome, cluster, newName, created, createErr, deferred, deleteCalls, lastDel>>
  /\ UNCHANGED <<m, intrAt, wvars, avars>>
  /\ UNCHANGED <<rvars, hvars, lvars>>

\* cleanupPodCmd: a deletePod error becomes an errorMsg.
TuiCleanupCmd ==
  /\ ui = "tui" /\ Alive /\ pc = "cleanup"
  /\ \E fault \in BOOLEAN :
       /\ lastDel' = DelRecord(cluster, m.newPodName, fault)
       /\ cluster' = lastDel'.after
       /\ Send(IF lastDel'.err # "none"
                 THEN Msg("errorMsg", lastDel'.err, NoPod)
                 ELSE Msg("podCleanedUpMsg", "none", m.newPodName))
  /\ deleteCalls' = deleteCalls + 1
  /\ pc' = "idle"
  /\ UNCHANGED <<ui, outcome, newName, created, createErr, deferred>>
  /\ UNCHANGED <<m, intrAt, wvars, avars>>
  /\ UNCHANGED <<rvars, hvars, lvars>>

\* the command of the podCleanedUpMsg case
TuiFinalCmd ==
  /\ ui = "tui" /\ Alive /\ pc = "final"
  /\ Send(Msg("finalSuccessMsg", "none", NoPod))
  /\ pc' = "idle"
  /\ UNCHANGED <<ui, outcome, cluster, newName, created, createErr, deferred, deleteCalls, lastDel>>
  /\ UNCHANGED <<m, intrAt, wvars, avars>>
  /\ UNCHANGED <<rvars, hvars, lvars>>

\* The user presses Ctrl-C; bubbletea reads the key and sends a KeyMsg.
TuiKeyCtrlC ==
  /\ ui = "tui" /\ Alive
  /\ intrAt = "none"
  /\ intrAt' = pc
  /\ Send(Msg("KeyCtrlC", "none", NoPod))
  /\ UNCHANGED <<m, svars, wvars, avars>>
  /\ UNCHANGED <<rvars, hvars, lvars>>

\* Update, case by case.  Each case leaves the cluster alone; the commands
\* it returns are the actions above.
UpdKey(msg) ==
  /\ msg.type = "KeyCtrlC"
  /\ Reply(msg, QuitMsg)
  /\ UNCHANGED <<m, pc, attSt, termAtCall>>

UpdErrorThenCleanup(msg) ==
  /\ msg.type = "errorMsg"
  /\ m' = [m EXCEPT !.err = msg.err]
  /\ msgs' = msgs \ {msg}
  /\ pc' = "cleanup"
  /\ UNCHANGED <<attSt, termAtCall>>

UpdError(msg) ==
  /\ msg.type = "errorMsg"
  /\ m' = [m EXCEPT !.err = msg.err]
  /\ Reply(msg, QuitMsg)
  /\ UNCHANGED <<pc, attSt, termAtCall>>

UpdKubeConnectedSkipsFetch(msg) ==
  /\ msg.type = "kubeConnectedMsg"
  /\ m' = [m EXCEPT !.clientset = TRUE, !.statusText = "generating"]
  /\ msgs' = msgs \ {msg}
  /\ pc' = "create"
  /\ UNCHANGED <<attSt, termAtCall>>

UpdKubeConnected(msg) ==
  /\ msg.type = "kubeConnectedMsg"
  /\ m' = [m EXCEPT !.clientset = TRUE, !.statusText = "fetching"]
  /\ msgs' = msgs \ {msg}
  /\ pc' = "fetch"
  /\ UNCHANGED <<attSt, termAtCall>>

UpdPodFetched(msg) ==
  /\ msg.type = "podFetchedMsg"
  /\ m' = [m EXCEPT !.statusText = "generating"]
  /\ msgs' = msgs \ {msg}
  /\ pc' = "create"
  /\ UNCHANGED <<attSt, termAtCall>>

UpdPodCreated(msg) ==
  /\ msg.type = "podCreatedMsg"
  /\ m' = [m EXCEPT !.newPodName = msg.podName, !.statusText = "waiting"]
  /\ msgs' = msgs \ {msg}
  /\ pc' = "wait"
  /\ UNCHANGED <<attSt, termAtCall>>

UpdPodRunning(msg) ==
  /\ msg.type = "podRunningMsg"
  /\ m' = [m EXCEPT !.newPodName = msg.podName, !.statusText = "attaching"]
  /\ Reply(msg, Msg("attachMsg", "none", NoPod))
  /\ UNCHANGED <<pc, attSt, termAtCall>>

\* attachToPod runs inside Update: the event loop handles nothing until
\* it has returned.
UpdAttach(msg) ==
  /\ msg.type = "attachMsg"
  /\ msgs' = msgs \ {msg}
  /\ pc' = "attach"
  /\ attSt' = "exec"
  /\ termAtCall' = term
  /\ UNCHANGED m

UpdPodAttached(msg) ==
  /\ msg.type = "podAttachedMsg"
  /\ m' = [m EXCEPT !.statusText = "cleaning"]
  /\ msgs' = msgs \ {msg}
  /\ pc' = "cleanup"
  /\ UNCHANGED <<attSt, termAtCall>>

UpdPodCleanedUp(msg) ==
  /\ msg.type = "podCleanedUpMsg"
  /\ m' = [m EXCEPT !.statusText = "removed"]
  /\ msgs' = msgs \ {msg}
  /\ pc' = "final"
  /\ UNCHANGED <<attSt, termAtCall>>

UpdFinalSuccess(msg) ==
  /\ msg.type = "finalSuccessMsg"
  /\ m' = [m EXCEPT !.statusText = "finished", !.done = TRUE]
  /\ Reply(msg, QuitMsg)
  /\ UNCHANGED <<pc, attSt, termAtCall>>

TuiUpdate ==
  /\ ui = "tui" /\ Alive /\ pc # "attach"
  /\ \E msg \in msgs :
       \/ UpdKey(msg)
       \/ UpdError(msg)
       \/ UpdKubeConnected(msg)
       \/ UpdPodFetched(msg)
       \/ UpdPodCreated(msg)
       \/ UpdPodRunning(msg)
       \/ UpdAttach(msg)
       \/ UpdPodAttached(msg)
       \/ UpdPodCleanedUp(msg)
       \/ UpdFinalSuccess(msg)
  /\ UNCHANGED <<ui, outcome, cluster, newName, created, createErr, deferred, deleteCalls, lastDel>>
  /\ UNCHANGED <<intrAt, attErr, term, oldState, wvars>>
  /\ UNCHANGED <<rvars, hvars, lvars>>

\* the rest of the attachMsg case, once attachToPod has returned
TuiAfterAttach ==
  /\ ui = "tui" /\ Alive /\ pc = "attach" /\ attSt = "returned"
  /\ Send(IF attErr # "none" /\ attErr # "exit_status"
            THEN Msg("errorMsg", attErr, NoPod)
            ELSE Msg("podAttachedMsg", "none", NoPod))
  /\ pc' = "idle"
  /\ UNCHANGED <<ui, outcome, cluster, newName, created, createErr, deferred, deleteCalls, lastDel>>
  /\ UNCHANGED <<m, intrAt, wvars, avars>>
  /\ UNCHANGED <<rvars, hvars, lvars>>

\* The event loop takes QuitMsg: the program returns and the process ends,
\* whatever command is still running.
TuiQuit ==
  /\ ui = "tui" /\ Alive /\ pc # "attach"
  /\ QuitMsg \in msgs
  /\ outcome' = IF m.err # "none" THEN "failed"
                ELSE IF m.done THEN "done" ELSE "interrupted"
  /\ pc' = "exited"
  /\ UNCHANGED <<ui, cluster, newName, created, createErr, deferred, deleteCalls, lastDel>>
  /\ UNCHANGED <<wvars, avars, tvars>>
  /\ UNCHANGED <<rvars, hvars, lvars>>

\* ---- attachToPod's resize goroutine (part_001:208-225) ----
\* resizeChan is unbuffered: a send completes when Next receives, and the
\* stream calls Next only while it lives.  The goroutine reads and writes
\* nothing but its own variables and the channel, and no step of the session
\* reads them: its steps are interleaved with attachToPod in SpecAttach, and
\* Spec leaves the goroutine where AttachMakeRaw started it.

\* width, height, _ := term.GetSize(...)
SamplerStart ==
  /\ Alive /\ sampler = "start"
  /\ sampled' = <<termSize>>
  /\ pushed' = termSize
  /\ sampler' = "send"
  /\ UNCHANGED <<termSize, received, svars, wvars, avars, tvars, hvars, lvars>>

\* resizeChan <- size, received by terminalSizeQueue.Next
SamplerSend ==
  /\ Alive /\ sampler = "send"
  /\ attSt = "stream"
  /\ received' = Append(received, pushed)
  /\ sampler' = "wait"
  /\ UNCHANGED <<termSize, pushed, sampled, svars, wvars, avars, tvars, hvars, lvars>>

SamplerTickPushesAnySample ==
  /\ Alive /\ sampler = "wait"
  /\ Len(sampled) < MaxSamples
  /\ sampled' = Append(sampled, termSize)
  /\ pushed' = termSize
  /\ sampler' = "send"
  /\ UNCHANGED <<termSize, received, svars, wvars, avars, tvars, hvars, lvars>>

\* case <-ticker.C: sample, and push the size if it has changed.  The for
\* loop has no other case and no return.
SamplerTick ==
  /\ Alive /\ sampler = "wait"
  /\ Len(sampled) < MaxSamples
  /\ sampled' = Append(sampled, termSize)
  /\ IF termSize # pushed
       THEN /\ pushed' = termSize
            /\ sampler' = "send"
       ELSE UNCHANGED <<pushed, sampler>>
  /\ UNCHANGED <<termSize, received, svars, wvars, avars, tvars, hvars, lvars>>

\* The user resizes the terminal window.
Resize ==
  /\ Alive /\ sampler \in {"start", "send", "wait"}
  /\ Len(received) < MaxResize
  /\ \E sz \in (1..NumSizes) \ {termSize} : termSize' = sz
  /\ UNCHANGED <<sampler, pushed, received, sampled, svars, wvars, avars, tvars, hvars, lvars>>

Next ==
  \/ CliConnect \/ CliFetch \/ CliCreate
  \/ WaitStart \/ WatchEvent \/ WaitTimeout \/ Tick
  \/ CliAfterWait
  \/ AttachExecutor \/ AttachMakeRaw \/ AttachStreamEnd
  \/ CliAfterAttach \/ CliDeferredCleanup \/ CliInterrupt
  \/ ExternalDelete
  \/ TuiConnectCmd \/ TuiFetchCmd \/ TuiCreateCmd \/ TuiWaitCmd
  \/ TuiCleanupCmd \/ TuiFinalCmd \/ TuiKeyCtrlC
  \/ TuiUpdate \/ TuiAfterAttach \/ TuiQuit

Spec == Init /\ [][Next]_vars

\* ---- values of the variables a specification does not use ----
ParkedSession ==
  /\ ui = "cli" /\ pc = "connect" /\ outcome = "none"
  /\ cluster = {} /\ newName = NumPods
  /\ created = NoPod /\ createErr = "none" /\ deferred = FALSE
  /\ deleteCalls = 0 /\ lastDel = NoDel
  /\ waitSt = "idle" /\ waitErr = NoErr /\ waitRes = 0 /\ lastEvent = NoEvent
  /\ timer = 0 /\ elapsed = 0
  /\ attSt = "idle" /\ attErr = "none"
  /\ term = "cooked" /\ termAtCall = "cooked" /\ oldState = "cooked"
  /\ m = NewModel /\ msgs = {} /\ intrAt = "none"

ParkedSampler ==
  sampler = "none" /\ termSize = 1 /\ pushed = 0 /\ received = <<>> /\ sampled = <<>>

ParkedHarness == fin = NoCall /\ fout = NoCall

ParkedLog == logFile = NoFile /\ appl = <<>>

\* ---- attachToPod with its resize goroutine ----
\* From the call of attachToPod on; after it has returned the caller goes
\* on and the process lives.
InitAttach ==
  /\ ui \in {"cli", "tui"} /\ pc = "attach" /\ outcome = "none"
  /\ cluster = {NumPods} /\ newName = NumPods
  /\ created = NumPods /\ createErr = "none" /\ deferred = (ui = "cli")
  /\ deleteCalls = 0 /\ lastDel = NoDel
  /\ waitSt = "returned" /\ waitErr = NoErr /\ waitRes = 1
  /\ lastEvent = [kind |-> "pod", phase |-> "Running"]
  /\ timer = 0 /\ elapsed = 0
  /\ attSt = "exec" /\ attErr = "none"
  /\ term \in TermModes /\ termAtCall = term /\ oldState = term
  /\ m = IF ui = "cli" THEN NewModel
         ELSE [NewModel EXCEPT !.statusText = "attaching", !.clientset = TRUE,
                               !.newPodName = NumPods]
  /\ msgs = {} /\ intrAt = "none"
  /\ sampler = "none" /\ termSize \in 1..NumSizes /\ pushed = 0 /\ received = <<>>
  /\ sampled = <<>>
  /\ ParkedHarness /\ ParkedLog

NextAttach ==
  \/ AttachExecutor \/ AttachMakeRaw \/ AttachStreamEnd
  \/ SamplerStart \/ SamplerSend \/ SamplerTick \/ Resize

SpecAttach == InitAttach /\ [][NextAttach]_vars

\* ---- generateNewPodName (part_001:54-73) ----
\* A string is the sequence of its characters.

DigitChars == <<"0", "1", "2", "3", "4", "5", "6", "7", "8", "9">>

\* fmt.Sprintf("%d", n) for n >= 0
RECURSIVE FormatInt(_)
FormatInt(n) ==
  IF n < 10 THEN <<DigitChars[n + 1]>>
  ELSE FormatInt(n \div 10) \o <<DigitChars[(n % 10) + 1]>>

\* strings.Join(parts, "-")
RECURSIVE Join(_)
Join(parts) ==
  IF parts = <<>> THEN <<>>
  ELSE IF Len(parts) = 1 THEN parts[1]
  ELSE parts[1] \o <<"-">> \o Join(Tail(parts))

\* strings.TrimLeft(str, "-") and strings.TrimRight(str, "-")
RECURSIVE TrimLeft(_)
TrimLeft(str) ==
  IF str # <<>> /\ Head(str) = "-" THEN TrimLeft(Tail(str)) ELSE str

RECURSIVE TrimRight(_)
TrimRight(str) ==
  IF str # <<>> /\ str[Len(str)] = "-"
    THEN TrimRight(SubSeq(str, 1, Len(str) - 1))
    ELSE str

\* strings.Trim(str, "-")
Trim(str) == TrimRight(TrimLeft(str))

generateNewPodNameNoTrim(originalName, prefix, suffix, user, nano) ==
  LET nameParts ==
        (IF prefix # <<>> THEN <<prefix>> ELSE <<>>)
          \o <<originalName>>
          \o (IF suffix # <<>> THEN <<suffix>> ELSE <<>>)
          \o (IF user # <<>> THEN <<user>> ELSE <<>>)
          \o <<FormatInt(nano % TokenMod)>>
      fullName == Join(nameParts)
  IN IF Len(fullName) > NameLimit THEN SubSeq(fullName, 1, NameLimit) ELSE fullName

\* nano is time.Now().UnixNano().
generateNewPodName(originalName, prefix, suffix, user, nano) ==
  LET nameParts ==
        (IF prefix # <<>> THEN <<prefix>> ELSE <<>>)
          \o <<originalName>>
          \o (IF suffix # <<>> THEN <<suffix>> ELSE <<>>)
          \o (IF user # <<>> THEN <<user>> ELSE <<>>)
          \o <<FormatInt(nano % TokenMod)>>
      fullName == Join(nameParts)
      cut == IF Len(fullName) > NameLimit THEN SubSeq(fullName, 1, NameLimit)
             ELSE fullName
  IN Trim(cut)

\* The arguments the harness calls generateNewPodName with.
Rep(c, n) == [i \in 1..n |-> c]

SrcNames ==
  {<<"w", "e", "b", "-", "7", "f">>,
   <<"m", "y", "-", "a", "p", "p", "-", "p", "o", "d", "-", "x", "y", "z">>}
    \cup {Rep("a", k) : k \in (NameLimit - 12)..MaxSrcLen}
    \cup {Rep("a", k) \o <<"-", "b">> : k \in (NameLimit - 12)..(MaxSrcLen - 2)}

Prefixes == {<<>>, <<"d", "b", "g", "-">>, <<"t", "e", "m", "p", "-">>, <<"-">>, <<"p">>}

Suffixes == {<<>>, <<"-", "d", "e", "b", "u", "g">>, <<"s">>}

Users == {<<>>, <<"a", "l", "-", "i", "c", "e">>, <<"u", "s", "e", "r">>}

Nanos == {0, 1234, 1235, 20007}

InitName ==
  /\ ParkedSession /\ ParkedSampler /\ ParkedLog
  /\ fin \in [name : SrcNames, prefix : Prefixes, suffix : Suffixes, user : Users,
              nano1 : Nanos, nano2 : Nanos]
  /\ fout = NoCall

\* Two sessions clone the same pod with the same flags, at two times.
CallGenerateNewPodName ==
  /\ ~fout.done
  /\ fout' = [done |-> TRUE,
              name1 |-> generateNewPodName(fin.name, fin.prefix, fin.suffix,
                                           fin.user, fin.nano1),
              name2 |-> generateNewPodName(fin.name, fin.prefix, fin.suffix,
                                           fin.user, fin.nano2)]
  /\ UNCHANGED <<fin, svars, wvars, avars, tvars, rvars, lvars>>

NextName == CallGenerateNewPodName

SpecName == InitName /\ [][NextName]_vars

\* ---- clonePod ----
\* Maps and slices are references. heap gives what each cell holds: the source
\* pod object, a label or annotation map, or the array behind a container
\* slice; the labels, annotations and containers fields of a pod name cells.

Store(heap, cell, val) ==
  [c \in DOMAIN heap \cup {cell} |-> IF c = cell THEN val ELSE heap[c]]

finalLabelsSourceWins(originalLabels, newLabels) ==
  [k \in DOMAIN originalLabels \cup DOMAIN newLabels |->
     IF k \in DOMAIN originalLabels THEN originalLabels[k] ELSE newLabels[k]]

\* The two loops that fill finalLabels: the source's entries, then the caller's.
finalLabels(originalLabels, newLabels) ==
  [k \in DOMAIN originalLabels \cup DOMAIN newLabels |->
     IF k \in DOMAIN newLabels THEN newLabels[k] ELSE originalLabels[k]]

EnvNamesOf(list) == {list[i].name : i \in 1..Len(list)}

\* What a loop of envMap[env.Name] = env over list leaves under name.
LastNamed(list, name) ==
  list[CHOOSE i \in 1..Len(list) :
         /\ list[i].name = name
         /\ \A j \in (i + 1)..Len(list) : list[j].name # name]

envMapSourceWins(env, newEnvs) ==
  [n \in EnvNamesOf(env) \cup EnvNamesOf(newEnvs) |->
     IF n \in EnvNamesOf(env) THEN LastNamed(env, n) ELSE LastNamed(newEnvs, n)]

\* The two loops that fill envMap: the container's entries, then the caller's.
envMap(env, newEnvs) ==
  [n \in EnvNamesOf(env) \cup EnvNamesOf(newEnvs) |->
     IF n \in EnvNamesOf(newEnvs) THEN LastNamed(newEnvs, n) ELSE LastNamed(env, n)]

\* The orders in which a range loop may visit the keys of a map.
Orders(keys) ==
  {p \in [1..Cardinality(keys) -> keys] :
     \A i, j \in 1..Cardinality(keys) : p[i] = p[j] => i = j}

clonePodSharesSpec(heap, originalPod, user, command, prefix, suffix, newLabels, newEnvs, nano, order) ==
  LET orig == heap[originalPod]
      podName == generateNewPodName(orig.name, prefix, suffix, user, nano)
      h1 == Store(heap, "finalLabels",
                  finalLabels(heap[orig.labels], heap[newLabels]))
      spec0 == [orig.spec EXCEPT !.restartPolicy = "Never"]
      cs == h1[spec0.containers]
      em == envMap(cs[1].env, newEnvs)
      h3 == IF Len(cs) > 0
              THEN Store(h1, spec0.containers,
                         [cs EXCEPT ![1] =
                            [@ EXCEPT !.command = command, !.args = <<>>,
                                      !.tty = TRUE, !.stdin = TRUE,
                                      !.env = [i \in 1..Len(order) |-> em[order[i]]]]])
              ELSE h1
  IN [pod |-> [name |-> podName,
               namespace |-> orig.namespace,
               labels |-> "finalLabels",
               annotations |-> orig.annotations,
               spec |-> [spec0 EXCEPT
                           !.nodeName = "",
                           !.serviceAccountName = orig.spec.serviceAccountName]],
      heap |-> h3]

\* originalPod and newLabels name cells of heap; order is the order in which
\* the last loop visits envMap; nano is time.Now().UnixNano(). The result is
\* the new pod and the heap after the call.
clonePod(heap, originalPod, user, command, prefix, suffix, newLabels, newEnvs, nano, order) ==
  LET orig == heap[originalPod]
      podName == generateNewPodName(orig.name, prefix, suffix, user, nano)
      h1 == Store(heap, "finalLabels",
                  finalLabels(heap[orig.labels], heap[newLabels]))
      \* Spec.DeepCopy(): the copy has a container array of its own
      h2 == Store(h1, "specCopy", h1[orig.spec.containers])
      spec0 == [orig.spec EXCEPT !.containers = "specCopy",
                                 !.restartPolicy = "Never"]
      cs == h2[spec0.containers]
      em == envMap(cs[1].env, newEnvs)
      h3 == IF Len(cs) > 0
              THEN Store(h2, spec0.containers,
                         [cs EXCEPT ![1] =
                            [@ EXCEPT !.command = command, !.args = <<>>,
                                      !.tty = TRUE, !.stdin = TRUE,
                                      !.env = [i \in 1..Len(order) |-> em[order[i]]]]])
              ELSE h2
  IN [pod |-> [name |-> podName,
               namespace |-> orig.namespace,
               labels |-> "finalLabels",
               annotations |-> orig.annotations,
               spec |-> [spec0 EXCEPT
                           !.nodeName = "",
                           !.serviceAccountName = orig.spec.serviceAccountName]],
      heap |-> h3]

\* The source pods and arguments the harness calls clonePod with.
LabelKeys == {"app", "tier", "env"}

LabelVals == {"a", "b"}

LabelMaps == UNION {[S -> LabelVals] : S \in SUBSET LabelKeys}

EnvVars == [name : {"A", "B"}, value : {"1", "2"}]

EnvLists == UNION {[1..n -> EnvVars] : n \in 0..MaxEnvLen}

Commands == {<<"bash">>, <<"sh", "-c", "id">>}

\* The i-th container of a source pod whose first container has env.
SrcContainer(i, env) ==
  IF i = 1
    THEN [name |-> "app", image |-> "app:1", port |-> 8080,
          command |-> <<"serve">>, args |-> <<"--port", "8080">>,
          tty |-> FALSE, stdin |-> FALSE, env |-> env]
    ELSE [name |-> "sidecar", image |-> "proxy:2", port |-> 9000 + i,
          command |-> <<"proxy">>, args |-> <<>>,
          tty |-> FALSE, stdin |-> FALSE,
          env |-> <<[name |-> "A", value |-> "1"]>>]

CloneCall(L1, L2, n, env, newEnvs, node, sa, command) ==
  [heap |->
     [originalPod |->
        [name |-> <<"w", "e", "b", "-", "7", "f">>,
         namespace |-> "default",
         labels |-> "srcLabels",
         annotations |-> "srcAnnotations",
         spec |-> [restartPolicy |-> "Always",
                   containers |-> "srcContainers",
                   nodeName |-> node,
                   serviceAccountName |-> sa,
                   hostname |-> "web"]],
      srcLabels |-> L1,
      srcAnnotations |-> [owner |-> "team"],
      srcContainers |-> [i \in 1..n |-> SrcContainer(i, env)],
      newLabels |-> L2],
   user |-> <<"u", "s", "e", "r">>,
   command |-> command,
   prefix |-> <<>>,
   suffix |-> <<>>,
   newEnvs |-> newEnvs,
   nano |-> 1234]

CloneCalls ==
  {CloneCall(L1, L2, n, <<[name |-> "A", value |-> "1"]>>,
             <<[name |-> "B", value |-> "2"]>>, node, sa, command) :
     L1 \in LabelMaps, L2 \in LabelMaps, n \in 0..MaxContainers,
     node \in {"", "node-1"}, sa \in {"default", "builder"},
     command \in Commands}
    \cup
  {CloneCall([app |-> "a"], [tier |-> "b"], n, env, newEnvs, "node-1",
             "default", <<"bash">>) :
     n \in 1..MaxContainers, env \in EnvLists, newEnvs \in EnvLists}

InitClone ==
  /\ ParkedSession /\ ParkedSampler /\ ParkedLog
  /\ fin \in CloneCalls
  /\ fout = NoCall

CallClonePod ==
  /\ ~fout.done
  /\ LET cs == fin.heap[fin.heap["originalPod"].spec.containers]
         keys == IF Len(cs) > 0 THEN DOMAIN envMap(cs[1].env, fin.newEnvs) ELSE {}
     IN \E order \in Orders(keys) :
          LET r == clonePod(fin.heap, "originalPod", fin.user, fin.command,
                            fin.prefix, fin.suffix, "newLabels", fin.newEnvs,
                            fin.nano, order)
          IN fout' = [done |-> TRUE, pod |-> r.pod, heap |-> r.heap]
  /\ UNCHANGED <<fin, svars, wvars, avars, tvars, rvars, lvars>>

NextClone == CallClonePod

SpecClone == InitClone /\ [][NextClone]_vars

\* ---- appendLog ----
\* Each session builds one logEntry after createPod succeeded and calls
\* appendLog with it (main.go:89-103, parsing.go:302-316). The file is shared by
\* every session started in the directory, so a call is two steps: the read
\* of the file and the write of the file.

Sessions == 1..NumSessions

\* The flag-dependent fields of a logEntry.
LogFlags ==
  {[Prefix |-> "", Suffix |-> "", Labels |-> <<>>, EnvFile |-> ""],
   [Prefix |-> "dbg", Suffix |-> "", Labels |-> <<>>, EnvFile |-> ""],
   [Prefix |-> "dbg", Suffix |-> "tmp", Labels |-> [app |-> "a"], EnvFile |-> ".env"]}

\* The entry of session s. time.Now() carries a monotonic clock reading
\* beside the wall clock time.
NewEntry(s, flags) ==
  [Timestamp |-> [wall |-> s, mono |-> s],
   NewPodName |-> s,
   SourcePod |-> SourcePod,
   Namespace |-> "default",
   User |-> "user",
   Command |-> <<"bash">>,
   Prefix |-> flags.Prefix,
   Suffix |-> flags.Suffix,
   Labels |-> flags.Labels,
   EnvFile |-> flags.EnvFile]

\* json.Marshal of one logEntry: the JSON object, as the function from its
\* keys. The time is written as RFC 3339 text, which has no monotonic
\* reading, and the omitempty fields are left out when empty.
MarshalEntry(e) ==
  LET keys == {"timestamp", "new_pod_name", "source_pod", "namespace", "user", "command"}
                \cup (IF e.Prefix # "" THEN {"prefix"} ELSE {})
                \cup (IF e.Suffix # "" THEN {"suffix"} ELSE {})
                \cup (IF DOMAIN e.Labels # {} THEN {"labels"} ELSE {})
                \cup (IF e.EnvFile # "" THEN {"env_file"} ELSE {})
  IN [k \in keys |->
        CASE k = "timestamp" -> e.Timestamp.wall
          [] k = "new_pod_name" -> e.NewPodName
          [] k = "source_pod" -> e.SourcePod
          [] k = "namespace" -> e.Namespace
          [] k = "user" -> e.User
          [] k = "command" -> e.Command
          [] k = "prefix" -> e.Prefix
          [] k = "suffix" -> e.Suffix
          [] k = "labels" -> e.Labels
          [] k = "env_file" -> e.EnvFile]

\* json.Unmarshal of one JSON object into a logEntry: a key that is absent
\* leaves the zero value.
UnmarshalEntry(o) ==
  [Timestamp |-> [wall |-> o["timestamp"], mono |-> 0],
   NewPodName |-> o["new_pod_name"],
   SourcePod |-> o["source_pod"],
   Namespace |-> o["namespace"],
   User |-> o["user"],
   Command |-> o["command"],
   Prefix |-> IF "prefix" \in DOMAIN o THEN o["prefix"] ELSE "",
   Suffix |-> IF "suffix" \in DOMAIN o THEN o["suffix"] ELSE "",
   Labels |-> IF "labels" \in DOMAIN o THEN o["labels"] ELSE <<>>,
   EnvFile |-> IF "env_file" \in DOMAIN o THEN o["env_file"] ELSE ""]

\* The file os.WriteFile leaves after writing json.MarshalIndent(entries).
Written(entries) ==
  [exists |-> TRUE, readable |-> TRUE, kind |-> "json",
   entries |-> [i \in 1..Len(entries) |-> MarshalEntry(entries[i])]]

\* The files a session may find: none, an empty one, the log of an earlier
\* session, that log without read permission, and one that is not JSON.
FoundFiles ==
  LET old == Written(<<NewEntry(0, CHOOSE f \in LogFlags : f.Prefix # "" /\ f.Suffix = "")>>)
  IN {NoFile,
      [exists |-> TRUE, readable |-> TRUE, kind |-> "empty", entries |-> <<>>],
      old,
      [old EXCEPT !.readable = FALSE],
      [exists |-> TRUE, readable |-> TRUE, kind |-> "garbage", entries |-> <<>>]}

InitLog ==
  /\ ParkedSession /\ ParkedSampler /\ ParkedHarness
  /\ logFile \in FoundFiles
  /\ \E flags \in [Sessions -> LogFlags] :
       appl = [s \in Sessions |->
                 [pc |-> "start", entry |-> NewEntry(s, flags[s]),
                  entries |-> <<>>, err |-> "none"]]

AppendLogReadSkipsFile(s) ==
  /\ appl[s].pc = "start"
  /\ appl' = [appl EXCEPT ![s].pc = "read", ![s].entries = <<>>]
  /\ UNCHANGED <<logFile, svars, wvars, avars, tvars, rvars, hvars>>

\* appendLog up to json.Unmarshal: os.Stat, os.ReadFile, json.Unmarshal.
AppendLogRead(s) ==
  /\ appl[s].pc = "start"
  /\ appl' =
       IF ~logFile.exists
         THEN [appl EXCEPT ![s].pc = "read", ![s].entries = <<>>]
       ELSE IF ~logFile.readable
         THEN [appl EXCEPT ![s].pc = "failed", ![s].err = "read"]
       ELSE IF logFile.kind = "empty"
         THEN [appl EXCEPT ![s].pc = "read", ![s].entries = <<>>]
       ELSE IF logFile.kind = "json"
         THEN [appl EXCEPT ![s].pc = "read",
                           ![s].entries = [i \in 1..Len(logFile.entries) |->
                                             UnmarshalEntry(logFile.entries[i])]]
       ELSE [appl EXCEPT ![s].pc = "failed", ![s].err = "parse"]
  /\ UNCHANGED <<logFile, svars, wvars, avars, tvars, rvars, hvars>>

\* appendLog from append on: json.MarshalIndent and os.WriteFile, which
\* truncates the file when it opens it. A write that fails has either not
\* opened the file or left it empty or cut short.
AppendLogWrite(s) ==
  /\ appl[s].pc = "read"
  /\ \/ /\ logFile' = Written(Append(appl[s].entries, appl[s].entry))
        /\ appl' = [appl EXCEPT ![s].pc = "done"]
     \/ /\ logFile' \in
             {logFile,
              [exists |-> TRUE, readable |-> TRUE, kind |-> "empty", entries |-> <<>>],
              [exists |-> TRUE, readable |-> TRUE, kind |-> "garbage", entries |-> <<>>]}
        /\ appl' = [appl EXCEPT ![s].pc = "failed", ![s].err = "write"]
  /\ UNCHANGED <<svars, wvars, avars, tvars, rvars, hvars>>

\* The calls follow one another: a call starts when no other is under way.
NextLog ==
  \E s \in Sessions :
    \/ (\A t \in Sessions : appl[t].pc # "read") /\ AppendLogRead(s)
    \/ AppendLogWrite(s)

SpecLog == InitLog /\ [][NextLog]_vars

\* Sessions started in the same directory at the same time: nothing orders
\* one call's read and write against another's.
NextLogRace ==
  \E s \in Sessions :
    \/ AppendLogRead(s)
    \/ AppendLogWrite(s)

SpecLogRace == InitLog /\ [][NextLogRace]_vars

\* ---- parseEnvFile ----
\* A file is its text, a sequence of characters.

\* bufio.ScanLines: the text up to each newline, and what follows the last
\* newline when that is not empty.
RECURSIVE ScanLines(_)
ScanLines(text) ==
  IF text = <<>> THEN <<>>
  ELSE IF \A i \in 1..Len(text) : text[i] # "\n" THEN <<text>>
  ELSE LET nl == CHOOSE i \in 1..Len(text) :
                   text[i] = "\n" /\ \A j \in 1..(i - 1) : text[j] # "\n"
       IN <<SubSeq(text, 1, nl - 1)>> \o ScanLines(SubSeq(text, nl + 1, Len(text)))

\* strings.TrimSpace, on the one white space character of EnvChars
RECURSIVE TrimSpaceLeft(_)
TrimSpaceLeft(str) ==
  IF str # <<>> /\ Head(str) = " " THEN TrimSpaceLeft(Tail(str)) ELSE str

RECURSIVE TrimSpaceRight(_)
TrimSpaceRight(str) ==
  IF str # <<>> /\ str[Len(str)] = " "
    THEN TrimSpaceRight(SubSeq(str, 1, Len(str) - 1))
    ELSE str

TrimSpace(str) == TrimSpaceRight(TrimSpaceLeft(str))

\* strings.SplitN(line, "=", 2)
SplitN2(line) ==
  IF \A i \in 1..Len(line) : line[i] # "=" THEN <<line>>
  ELSE LET eq == CHOOSE i \in 1..Len(line) :
                   line[i] = "=" /\ \A j \in 1..(i - 1) : line[j] # "="
       IN <<SubSeq(line, 1, eq - 1), SubSeq(line, eq + 1, Len(line))>>

RECURSIVE scanLoopNoTrim(_)
scanLoopNoTrim(lines) ==
  IF lines = <<>> THEN <<>>
  ELSE LET line == Head(lines)
           parts == SplitN2(line)
           rest == scanLoopNoTrim(Tail(lines))
       IN IF line = <<>> \/ Head(line) = "#" THEN rest
          ELSE IF Len(parts) # 2
            THEN IF line[Len(line)] = "="
                   THEN <<[Name |-> parts[1], Value |-> <<>>]>> \o rest
                   ELSE rest
          ELSE <<[Name |-> parts[1], Value |-> parts[2]]>> \o rest

\* The for scanner.Scan() loop over the lines the scanner returns: envs.
RECURSIVE scanLoop(_)
scanLoop(lines) ==
  IF lines = <<>> THEN <<>>
  ELSE LET line == TrimSpace(Head(lines))
           parts == SplitN2(line)
           rest == scanLoop(Tail(lines))
       IN IF line = <<>> \/ Head(line) = "#" THEN rest
          ELSE IF Len(parts) # 2
            THEN IF line[Len(line)] = "="
                   THEN <<[Name |-> parts[1], Value |-> <<>>]>> \o rest
                   ELSE rest
          ELSE <<[Name |-> parts[1], Value |-> parts[2]]>> \o rest

\* file.path is "" when --env-file is not given; file.opens is whether
\* os.Open succeeds.
parseEnvFile(file) ==
  IF file.path = "" THEN [envs |-> <<>>, err |-> FALSE]
  ELSE IF ~file.opens THEN [envs |-> <<>>, err |-> TRUE]
  ELSE [envs |-> scanLoop(ScanLines(file.text)), err |-> FALSE]

\* The files the harness calls parseEnvFile with.
EnvChars == {"A", "=", " ", "#", "\n"}

ExampleFile ==
  <<"A", "P", "I", "_", "K", "E", "Y", "=", "x", "y", "z", "\n",
    "#", " ", "c", "o", "m", "m", "e", "n", "t", "\n",
    "L", "O", "G", "_", "L", "E", "V", "E", "L", "=", "\n",
    "B", "A", "D", "_", "L", "I", "N", "E", "\n">>

EnvFiles ==
  {[path |-> "", opens |-> FALSE, text |-> <<>>],
   [path |-> "my.env", opens |-> FALSE, text |-> <<>>],
   [path |-> "my.env", opens |-> TRUE, text |-> ExampleFile]}
    \cup {[path |-> "my.env", opens |-> TRUE, text |-> t] :
            t \in UNION {[1..n -> EnvChars] : n \in 0..MaxFileLen}}

InitEnv ==
  /\ ParkedSession /\ ParkedSampler /\ ParkedLog
  /\ fin \in EnvFiles
  /\ fout = NoCall

CallParseEnvFile ==
  /\ ~fout.done
  /\ LET r == parseEnvFile(fin)
     IN fout' = [done |-> TRUE, envs |-> r.envs, err |-> r.err]
  /\ UNCHANGED <<fin, svars, wvars, avars, tvars, rvars, lvars>>

NextEnv == CallParseEnvFile

SpecEnv == InitEnv /\ [][NextEnv]_vars

\* ---- createPod and deletePod against a cluster, call after call ----
\* The session calls deletePod once; here the two functions are called for
\* any name in any order, and other clients delete pods in between.

InitDelete ==
  /\ Init
  /\ ui = "cli"
  /\ term = "cooked"

CallCreatePod ==
  /\ \E n \in PodNames, fault \in BOOLEAN :
       cluster' = createPod(cluster, n, fault).cluster
  /\ UNCHANGED <<ui, pc, outcome, newName, created, createErr, deferred, deleteCalls, lastDel>>
  /\ UNCHANGED <<wvars, avars, tvars>>
  /\ UNCHANGED <<rvars, hvars, lvars>>

CallDeletePod ==
  /\ deleteCalls < MaxCalls
  /\ \E n \in PodNames, fault \in BOOLEAN :
       /\ lastDel' = DelRecord(cluster, n, fault)
       /\ cluster' = lastDel'.after
  /\ deleteCalls' = deleteCalls + 1
  /\ UNCHANGED <<ui, pc, outcome, newName, created, createErr, deferred>>
  /\ UNCHANGED <<wvars, avars, tvars>>
  /\ UNCHANGED <<rvars, hvars, lvars>>

NextDelete == CallCreatePod \/ CallDeletePod \/ ExternalDelete

SpecDelete == InitDelete /\ [][NextDelete]_vars

\* ======================= the claims =======================

\* C1: once createPod has succeeded, every terminal state of the session
\* (normal end, readiness error, attach error, cancellation) has seen exactly
\* one deletePod call for the created pod.
C1_DeleteExactlyOnce ==
  (/\ pc = "exited" /\ created # NoPod
   /\ \/ outcome \in {"done", "failed"}
      \/ outcome = "interrupted" /\ intrAt = "attach")
    => (deleteCalls = 1 /\ lastDel.name = created)

\* C2: a session that fails because waitForPodRunning returned the timeout
\* or the Failed-phase error has called deletePod for the pod before it exits.
C2_ReadinessErrorDeletes ==
  (pc = "exited" /\ outcome = "failed" /\ waitErr.kind \in {"timeout", "phase"})
    => (deleteCalls >= 1 /\ lastDel.name = created)

\* C3: a stream that ends with the remote command's non-zero exit status does
\* not make the session fail: it ends as a finished session (a failed cleanup
\* and a user interrupt set aside).
C3_ExitStatusIsNotFailure ==
  (pc = "exited" /\ attErr = "exit_status" /\ lastDel.err = "none" /\ intrAt = "none")
    => outcome = "done"

\* C4: a user interrupt that arrives while the session waits for readiness or
\* attaches never lets the session exit without a deletePod call for the pod.
C4_InterruptPassesCleanup ==
  (pc = "exited" /\ created # NoPod /\ intrAt \in {"wait", "attach"})
    => deleteCalls >= 1

\* C5: a deletePod failure during cleanup is only a warning: the session
\* does not fail, the TUI model's err stays unset and it reaches done.
C5_DeleteFailureIsWarning ==
  /\ (lastDel.err # "none") => (m.err = "none" /\ outcome # "failed")
  /\ (pc = "exited" /\ lastDel.err # "none" /\ intrAt = "none") => outcome = "done"

\* C6: when createPod fails, no later stage is entered: no deletePod call, no
\* readiness wait, no attach; and the session ends in failure (unless the
\* user's interrupt ends it first).
C6_CreateFailureShortCircuits ==
  createErr # "none" =>
    /\ created = NoPod
    /\ deleteCalls = 0
    /\ waitSt = "idle"
    /\ attSt = "idle"
    /\ pc \in {"idle", "exited"}
    /\ (pc = "exited" /\ intrAt = "none") => outcome = "failed"

C6_Witness ==
  /\ pc = "exited" /\ createErr = "create" /\ outcome = "failed"
  /\ ui = "tui" /\ m.err = "create" /\ newName \in cluster

\* C7: deletePod for a name that is absent from the cluster returns success
\* and leaves the cluster unchanged whenever the API answers; it returns an
\* error only when the API's error is another one than not-found.
C7_DeleteIdempotent ==
  lastDel.name # NoPod =>
    /\ (lastDel.name \notin lastDel.before /\ lastDel.api # "other")
         => (lastDel.err = "none" /\ lastDel.after = lastDel.before)
    /\ (lastDel.err # "none") <=> (lastDel.api = "other")
    /\ lastDel.err = "none" => lastDel.name \notin lastDel.after

C7_Witness ==
  /\ deleteCalls >= 2
  /\ lastDel.name \notin lastDel.before
  /\ lastDel.api = "notfound"
  /\ lastDel.err = "none"
  /\ lastDel.after = lastDel.before

\* C8: a watch resolves once, and by the first qualifying event: Running or
\* Succeeded resolves success, Failed resolves the error that carries the
\* phase, and a pod event with any other phase leaves the watch pending.
C8_ResolvesOnceByFirstQualifying ==
  /\ waitRes <= 1
  /\ (waitSt = "returned") <=> (waitRes = 1)
  /\ (lastEvent.kind = "pod" /\ lastEvent.phase \in {"Running", "Succeeded"})
       => (waitSt = "returned" /\ waitErr = NoErr)
  /\ (lastEvent.kind = "pod" /\ lastEvent.phase = "Failed")
       => (waitSt = "returned" /\ waitErr = [kind |-> "phase", phase |-> "Failed"])
  /\ (lastEvent.kind = "pod" /\ lastEvent.phase \notin {"Running", "Succeeded", "Failed"})
       => (waitSt = "watching" \/ waitErr.kind = "timeout")
  /\ (waitSt = "returned" /\ waitErr = NoErr)
       => (lastEvent.kind = "pod" /\ lastEvent.phase \in {"Running", "Succeeded"})
  /\ waitErr.kind = "phase" => lastEvent = [kind |-> "pod", phase |-> "Failed"]

C8_Witness ==
  /\ waitSt = "returned" /\ waitRes = 1
  /\ lastEvent = [kind |-> "pod", phase |-> "Failed"]
  /\ waitErr = [kind |-> "phase", phase |-> "Failed"]
  /\ elapsed >= 1

\* C9: a wait in which no Running, Succeeded or Failed event has arrived is
\* over (with the timeout error) once the caller's timeout has elapsed since
\* the wait started, whatever other events arrive meanwhile.
C9_TimeoutSinceWaitStarted ==
  waitSt = "watching" => elapsed <= Timeout

\* C10: when attachToPod has returned, the terminal is in the mode it had
\* when attachToPod was called: restored after raw mode was entered, and
\* untouched when the error came before.
C10_TerminalRestored ==
  attSt = "returned" =>
    /\ term = termAtCall
    /\ (termAtCall # "raw" => term # "raw")

C10_Witness ==
  /\ attSt = "returned" /\ attErr = "transport"
  /\ termAtCall = "cbreak" /\ term = "cbreak"

\* C11: once attachToPod has returned, its resize goroutine has ended and has
\* closed resizeChan (so that Next returns nil): no goroutine is left running
\* or blocked on a send.
C11_SamplerEndsWithStream ==
  attSt = "returned" => sampler \in {"none", "closed"}

\* The stages of the TUI session, in the order of the statusText they show.
StageRank(text) ==
  CASE text = "connecting" -> 0
    [] text = "fetching" -> 1
    [] text = "generating" -> 2
    [] text = "waiting" -> 3
    [] text = "attaching" -> 4
    [] text = "cleaning" -> 5
    [] text = "removed" -> 6
    [] text = "finished" -> 7

C13_NameShape ==
  fout.done =>
    /\ Len(fout.name1) <= NameLimit
    /\ fout.name1 # <<>> => (Head(fout.name1) # "-" /\ fout.name1[Len(fout.name1)] # "-")

\* the joined name is 64 long and its 63rd character is the separator
C13_Witness ==
  /\ fout.done
  /\ fin.prefix = <<>> /\ fin.suffix = <<>> /\ fin.user = <<>>
  /\ fin.name = Rep("a", NameLimit - 1) /\ fin.nano1 = 0
  /\ fout.name1 = Rep("a", NameLimit - 1)

\* C14: for source web-7f, prefix dbg-, no suffix and user al-ice the name is
\* dbg-web-7f-al-ice- followed by the token's digits: a prefix that carries
\* its own separator is joined with a single separator.
C14_PrefixWithSeparator ==
  (/\ fout.done
   /\ fin.name = <<"w", "e", "b", "-", "7", "f">>
   /\ fin.prefix = <<"d", "b", "g", "-">>
   /\ fin.suffix = <<>>
   /\ fin.user = <<"a", "l", "-", "i", "c", "e">>)
    => fout.name1 = <<"d", "b", "g", "-", "w", "e", "b", "-", "7", "f", "-",
                      "a", "l", "-", "i", "c", "e", "-">>
                      \o FormatInt(fin.nano1 % TokenMod)

\* C15: two sessions with the same prefix, source name, suffix and user and
\* different tokens get different names, whatever the lengths.
C15_DistinctTokensDistinctNames ==
  (fout.done /\ fin.nano1 % TokenMod # fin.nano2 % TokenMod)
    => fout.name1 # fout.name2

\* C16: the labels of the pod clonePod returns have exactly the keys of the
\* source's labels and the caller's labels, each with the caller's value when
\* the caller has the key and the source's value otherwise, and the label map
\* of the source pod is as it was before the call.
C16_LabelsMerged ==
  fout.done =>
    LET L1 == fin.heap["srcLabels"]
        L2 == fin.heap["newLabels"]
        R == fout.heap[fout.pod.labels]
    IN /\ DOMAIN R = DOMAIN L1 \cup DOMAIN L2
       /\ \A k \in DOMAIN R : R[k] = IF k \in DOMAIN L2 THEN L2[k] ELSE L1[k]
       /\ fout.heap["originalPod"].labels = "srcLabels"
       /\ fout.heap["srcLabels"] = L1

\* A call where the two maps disagree on a key and each has a key of its own.
C16_Witness ==
  /\ fout.done
  /\ \E k \in DOMAIN fin.heap["srcLabels"] \cap DOMAIN fin.heap["newLabels"] :
       fin.heap["srcLabels"][k] # fin.heap["newLabels"][k]
  /\ DOMAIN fin.heap["srcLabels"] \ DOMAIN fin.heap["newLabels"] # {}
  /\ DOMAIN fin.heap["newLabels"] \ DOMAIN fin.heap["srcLabels"] # {}

\* C17: the environment of the clone's first container has one entry for each
\* name that the first source container or the caller's list has, and no
\* other; the entry is one of the caller's when the caller has the name, and
\* one of the source container's otherwise.
C17_EnvMerged ==
  (fout.done /\ Len(fin.heap["srcContainers"]) > 0) =>
    LET src == fin.heap["srcContainers"][1].env
        new == fin.newEnvs
        res == fout.heap[fout.pod.spec.containers][1].env
    IN /\ EnvNamesOf(res) = EnvNamesOf(src) \cup EnvNamesOf(new)
       /\ \A i, j \in 1..Len(res) : res[i].name = res[j].name => i = j
       /\ \A i \in 1..Len(res) :
            IF res[i].name \in EnvNamesOf(new)
              THEN \E j \in 1..Len(new) : new[j] = res[i]
              ELSE \E j \in 1..Len(src) : src[j] = res[i]

\* The source container has a name twice, and the caller gives a name of the
\* source another value.
C17_Witness ==
  /\ fout.done
  /\ Len(fin.heap["srcContainers"]) > 0
  /\ LET src == fin.heap["srcContainers"][1].env
     IN /\ \E i, j \in 1..Len(src) : i # j /\ src[i].name = src[j].name
        /\ \E i \in 1..Len(src), j \in 1..Len(fin.newEnvs) :
             /\ src[i].name = fin.newEnvs[j].name
             /\ src[i].value # fin.newEnvs[j].value
        /\ Len(fout.heap[fout.pod.spec.containers][1].env) = 1

\* C18: the pod clonePod returns has as many containers as the source (none
\* when the source has none); its first container has the caller's command,
\* no arguments, TTY and stdin on, and is otherwise the source's first
\* container but for the environment; the other containers are the source's;
\* restart policy is Never, node name is empty, service account and the other
\* spec fields are the source's; and the source pod is as it was before the call.
C18_CloneShape ==
  fout.done =>
    LET orig == fin.heap["originalPod"]
        srcC == fin.heap["srcContainers"]
        c == fout.heap[fout.pod.spec.containers]
    IN /\ Len(c) = Len(srcC)
       /\ Len(srcC) > 0 =>
            /\ c[1].command = fin.command
            /\ c[1].args = <<>>
            /\ c[1].tty /\ c[1].stdin
            /\ [c[1] EXCEPT !.env = <<>>]
                 = [srcC[1] EXCEPT !.command = fin.command, !.args = <<>>,
                                   !.tty = TRUE, !.stdin = TRUE, !.env = <<>>]
       /\ \A i \in 2..Len(srcC) : c[i] = srcC[i]
       /\ fout.pod.spec.restartPolicy = "Never"
       /\ fout.pod.spec.nodeName = ""
       /\ fout.pod.spec.serviceAccountName = orig.spec.serviceAccountName
       /\ fout.pod.spec.hostname = orig.spec.hostname
       /\ \A cell \in DOMAIN fin.heap : fout.heap[cell] = fin.heap[cell]

\* A source pod bound to a node, with a second container.
C18_Witness ==
  /\ fout.done
  /\ Len(fin.heap["srcContainers"]) > 1
  /\ fin.heap["originalPod"].spec.nodeName # ""
  /\ fin.heap["originalPod"].spec.serviceAccountName = "builder"

\* C19: when appendLog calls follow one another, a call that succeeds leaves
\* the file holding the records it held before, with the same content and in
\* the same order, followed by the record of the call's entry; a call that
\* fails because the file cannot be read or parsed leaves the file as it was.
C19_AppendKeepsLog ==
  [][\A s \in Sessions :
       /\ (appl[s].pc = "read" /\ appl'[s].pc = "done") =>
            /\ logFile'.exists /\ logFile'.kind = "json"
            /\ logFile'.entries =
                 (IF logFile.exists /\ logFile.kind = "json"
                    THEN logFile.entries ELSE <<>>)
                   \o <<MarshalEntry(appl[s].entry)>>
       /\ (appl[s].pc = "start" /\ appl'[s].pc = "failed") =>
            /\ appl'[s].err \in {"read", "parse"}
            /\ logFile' = logFile]_vars

\* Two calls have succeeded on a file that already held a record, one of them
\* with the optional fields set.
C19_Witness ==
  /\ \E s, t \in Sessions :
       /\ s # t /\ appl[s].pc = "done" /\ appl[t].pc = "done"
       /\ appl[s].entry.Prefix = "" /\ DOMAIN appl[t].entry.Labels # {}
  /\ logFile.kind = "json" /\ Len(logFile.entries) = 3

\* C20 as stated: parseEnvFile returns, in file order, one entry for each
\* line of the file that has an '=', is not blank and does not start with
\* '#': the name is the line's text before its first '=' and the value is the
\* text after it.
C20_OneEntryPerRawLine ==
  (fout.done /\ fin.opens) =>
    LET ls == ScanLines(fin.text)
        kept == {i \in 1..Len(ls) :
                   /\ \E j \in 1..Len(ls[i]) : ls[i][j] # " "
                   /\ ls[i][1] # "#"
                   /\ \E j \in 1..Len(ls[i]) : ls[i][j] = "="}
        at(k) == CHOOSE i \in kept : Cardinality({j \in kept : j < i}) = k - 1
        eq(l) == CHOOSE j \in 1..Len(l) : l[j] = "=" /\ \A h \in 1..(j - 1) : l[h] # "="
    IN /\ ~fout.err
       /\ Len(fout.envs) = Cardinality(kept)
       /\ \A k \in 1..Len(fout.envs) :
            /\ fout.envs[k].Name = SubSeq(ls[at(k)], 1, eq(ls[at(k)]) - 1)
            /\ fout.envs[k].Value =
                 SubSeq(ls[at(k)], eq(ls[at(k)]) + 1, Len(ls[at(k)]))

\* C20, amended: parseEnvFile returns, in file order, one entry for each line
\* that, once the white space at its two ends is removed, is not empty, does
\* not start with '#' and has an '=': the name is the trimmed line's text
\* before its first '=' and the value is the text after it, empty when the
\* trimmed line ends in that '='. The file API_KEY=xyz / # comment /
\* LOG_LEVEL= / BAD_LINE gives the two entries API_KEY=xyz and LOG_LEVEL with
\* an empty value.
C20_OneEntryPerTrimmedLine ==
  (fout.done /\ fin.opens) =>
    LET raw == ScanLines(fin.text)
        ls == [i \in 1..Len(raw) |-> TrimSpace(raw[i])]
        kept == {i \in 1..Len(ls) :
                   /\ ls[i] # <<>>
                   /\ ls[i][1] # "#"
                   /\ \E j \in 1..Len(ls[i]) : ls[i][j] = "="}
        at(k) == CHOOSE i \in kept : Cardinality({j \in kept : j < i}) = k - 1
        eq(l) == CHOOSE j \in 1..Len(l) : l[j] = "=" /\ \A h \in 1..(j - 1) : l[h] # "="
    IN /\ ~fout.err
       /\ Len(fout.envs) = Cardinality(kept)
       /\ \A k \in 1..Len(fout.envs) :
            /\ fout.envs[k].Name = SubSeq(ls[at(k)], 1, eq(ls[at(k)]) - 1)
            /\ fout.envs[k].Value =
                 SubSeq(ls[at(k)], eq(ls[at(k)]) + 1, Len(ls[at(k)]))
            /\ ls[at(k)][Len(ls[at(k)])] = "=" /\ eq(ls[at(k)]) = Len(ls[at(k)])
                 => fout.envs[k].Value = <<>>
       /\ fin.text = ExampleFile =>
            fout.envs = <<[Name |-> <<"A", "P", "I", "_", "K", "E", "Y">>,
                           Value |-> <<"x", "y", "z">>],
                          [Name |-> <<"L", "O", "G", "_", "L", "E", "V", "E", "L">>,
                           Value |-> <<>>]>>

\* A file of two lines with '=', the first with white space before the name.
C20_Witness ==
  /\ fout.done /\ fin.opens
  /\ Len(fout.envs) = 2
  /\ fin.text[1] = " "
  /\ fout.envs[1].Name = <<"A">>

\* C21: once the watch has delivered a watch.Error event, an object that is
\* not a pod, or the zero event of a closed channel, waitForPodRunning has
\* returned, with the error of that event: the loop never goes on after one.
C21_BadEventEndsWait ==
  lastEvent.kind \in {"error", "nonpod", "closed"} =>
    /\ waitSt = "returned"
    /\ waitErr.kind = IF lastEvent.kind = "error" THEN "event" ELSE "object"

\* The server closed the watch channel after a minute of waiting.
C21_Witness ==
  /\ lastEvent.kind = "closed"
  /\ waitSt = "returned" /\ waitErr.kind = "object"
  /\ elapsed >= 1

\* C22: the sizes the remote side has received through Next are, in order,
\* the first size sampled and then each later sample that differs from the
\* size pushed before it, none of them twice; an unchanged sample pushes
\* nothing, and only the push the goroutine is still sending can be missing.
C22_ReceivedAreChangedSamples ==
  LET RECURSIVE Pushes(_, _)
      Pushes(s, last) ==
        IF s = <<>> THEN <<>>
        ELSE IF Head(s) # last THEN <<Head(s)>> \o Pushes(Tail(s), Head(s))
        ELSE Pushes(Tail(s), last)
      expected == IF sampled = <<>> THEN <<>>
                  ELSE <<sampled[1]>> \o Pushes(Tail(sampled), sampled[1])
  IN /\ Len(received) <= Len(expected)
     /\ received = SubSeq(expected, 1, Len(received))
     /\ sampler = "send" => Len(received) = Len(expected) - 1
     /\ sampler # "send" => received = expected
     /\ \A i \in 1..(Len(received) - 1) : received[i] # received[i + 1]

\* The remote side has the first size and a changed one, and the goroutine
\* has also sampled a size that had not changed.
C22_Witness ==
  /\ Len(received) = 2
  /\ Len(sampled) > 2
  /\ sampler = "wait"

\* C23: in the TUI, when the create step runs and the source pod is no
\* longer in the cluster, the step creates no pod and sends the error of the
\* failed fetch to Update, which makes the session fail with it; the step
\* never goes on without the source pod.
C23_MissingSourceFails ==
  [][(ui = "tui" /\ pc = "create" /\ pc' # "create" /\ SourcePod \notin cluster) =>
       /\ created' = NoPod
       /\ cluster' = cluster
       /\ outcome' # "crashed"
       /\ pc' = "idle" => Msg("errorMsg", "fetch", NoPod) \in msgs']_vars

\* C24: when two sessions have each completed an appendLog call on the log
\* file, and no call is under way or has failed, the file holds the records
\* of both, however the reads and writes of the calls were interleaved.
C24_BothRecordsKept ==
  \A s, t \in Sessions :
    (/\ s # t
     /\ appl[s].pc = "done" /\ appl[t].pc = "done"
     /\ \A u \in Sessions : appl[u].pc \in {"start", "done"})
      => /\ logFile.exists /\ logFile.kind = "json"
         /\ \E i \in 1..Len(logFile.entries) :
              logFile.entries[i] = MarshalEntry(appl[s].entry)
         /\ \E i \in 1..Len(logFile.entries) :
              logFile.entries[i] = MarshalEntry(appl[t].entry)

====
